---------------------------- MODULE Spec2Model ----------------------------
(***************************************************************************)
(* Model of src/project4.hh: the BLOSUM penalty table                      *)
(* (BlosumPenaltyArray), local_alignment and local_alignment_best_match.   *)
(*                                                                         *)
(* A character is a one-letter string, a std::string a sequence of them.   *)
(* local_alignment is followed statement by statement: pc is the position  *)
(* in the function, the other variables are its locals and parameters.     *)
(*                                                                         *)
(* Undefined behaviour is kept nondeterministic:                           *)
(*  - the counter of the allocation loop (line 213) is never initialised:  *)
(*    it starts at any value of StartVals;                                 *)
(*  - a cell of a row obtained from new[] that was never assigned holds an *)
(*    indeterminate value: each read of it yields any value of GarbageInts *)
(*    (any tag of GarbageTags);                                            *)
(*  - an access through a row index outside 0..n, through a row pointer    *)
(*    that was never assigned, or through a string index below 0 either    *)
(*    kills the process (Crash), falls on memory outside the two matrices  *)
(*    and execution goes on (the ...Stray actions), or the rest of the     *)
(*    loop is not executed (the ...Leave actions).                         *)
(***************************************************************************)
EXTENDS Integers, Sequences, FiniteSets, TLC

\* ------------------------------------------------------------------ bounds
MaxLen == 2
MaxStray == 1
MaxOps == 3
MaxCands == 2

\* ----------------------------------------------------------------- symbols
Alphabet == {"a", "b"}
GAP == "*"
NUL == "NUL"
STRAYCHAR == "#"
Symbols == Alphabet \cup {GAP}

Strings == UNION {[1..k -> Alphabet] : k \in 0..MaxLen}
StartVals == (0 - 1)..(MaxLen + 2)
GarbageInts == {0 - 1, 0, 1}
GarbageTags == {"u", "l", "d", "?", "x"}

VARIABLES pc, string1, string2, penaltyMap, n, m, allocd, written, d, b,
          i, j, best_score, best_i, best_j, matchString1, matchString2,
          prev, proteins, best_protein, arg, ret, ops, strays

vars == <<pc, string1, string2, penaltyMap, n, m, allocd, written, d, b,
          i, j, best_score, best_i, best_j, matchString1, matchString2,
          prev, proteins, best_protein, arg, ret, ops, strays>>

\* ------------------------------------------------------ BlosumPenaltyArray
EmptyMap == [x \in {} |-> 0]

Has(map, c1, c2) == c1 \in DOMAIN map /\ c2 \in DOMAIN map[c1]

RowOf(map, c1) == IF c1 \in DOMAIN map THEN map[c1] ELSE EmptyMap

\* _penaltyMap[c1][c2] = penalty
set_penalty(map, c1, c2, penalty) ==
    [x \in DOMAIN map \cup {c1} |->
        IF x = c1
        THEN [y \in DOMAIN RowOf(map, c1) \cup {c2} |->
                 IF y = c2 THEN penalty ELSE RowOf(map, c1)[y]]
        ELSE map[x]]

\* the value std::map::operator[] gives a key it has to insert
MissValue == 0

\* the map after "return _penaltyMap[c1][c2]": operator[] inserts a missing key
MapAfterGet(map, c1, c2) ==
    IF Has(map, c1, c2) THEN map ELSE set_penalty(map, c1, c2, MissValue)

get_penalty(map, c1, c2) == MapAfterGet(map, c1, c2)[c1][c2]

\* a table as load_blosum_file leaves it: one set_penalty per row and column
Scheme(match, mismatch, gapUp, gapLeft) ==
    [c1 \in Symbols |-> [c2 \in Symbols |->
        IF c1 = GAP /\ c2 = GAP THEN 0
        ELSE IF c2 = GAP THEN gapUp
        ELSE IF c1 = GAP THEN gapLeft
        ELSE IF c1 = c2 THEN match ELSE mismatch]]

Tables == {Scheme(1, 0 - 1, 0 - 1, 0 - 1),
           Scheme(2, 0 - 1, 1, 0)}


\* ------------------------------------------------------------ construction
NoMatrix == [r \in {0} |-> [c \in {0} |-> 0]]
NoTags == [r \in {0} |-> [c \in {0} |-> "?"]]

InitCommon ==
    /\ pc = "idle"
    /\ string1 = <<>> /\ string2 = <<>>
    /\ n = 0 /\ m = 0
    /\ allocd = {} /\ written = {}
    /\ d = NoMatrix /\ b = NoTags
    /\ i = 0 /\ j = 0
    /\ best_score = 0 /\ best_i = 0 /\ best_j = 0
    /\ matchString1 = <<>> /\ matchString2 = <<>>
    /\ prev = <<>>
    /\ proteins = <<>> /\ best_protein = 0
    /\ arg = <<>> /\ ret = <<>> /\ ops = 0
    /\ strays = 0

\* a table already loaded, no call made yet
Init == InitCommon /\ penaltyMap \in Tables

\* a BlosumPenaltyArray right after its constructor
InitTable == InitCommon /\ penaltyMap = EmptyMap

\* --------------------------------------------------------- local_alignment
\* lines 206-212: the locals before the first loop; the two pointer arrays
\* hold n+1 row pointers, none assigned yet; the counter of line 213 is
\* declared without a value
Enter(s1, s2) ==
    /\ string1' = s1 /\ string2' = s2
    /\ best_score' = 0
    /\ matchString1' = <<>> /\ matchString2' = <<>>
    /\ n' = Len(s1) /\ m' = Len(s2)
    /\ d' = [r \in 0..Len(s1) |-> [c \in 0..Len(s2) |-> 0]]
    /\ b' = [r \in 0..Len(s1) |-> [c \in 0..Len(s2) |-> "?"]]
    /\ allocd' = {} /\ written' = {}
    /\ i' \in StartVals
    /\ j' = 0 /\ best_i' = 0 /\ best_j' = 0
    /\ strays' = 0
    /\ pc' = "alloc"

Call ==
    /\ pc = "idle"
    /\ \E s1 \in Strings, s2 \in Strings : Enter(s1, s2)
    /\ UNCHANGED <<penaltyMap, prev, proteins, best_protein, arg, ret, ops>>

\* the same caller aligning the two sequences the other way round
CallSwapped ==
    /\ pc = "done" /\ prev = <<>>
    /\ prev' = <<string1, string2, best_score>>
    /\ Enter(string2, string1)
    /\ UNCHANGED <<penaltyMap, proteins, best_protein, arg, ret, ops>>

\* d[r][c] and b[r][c] are inside the matrices and row r was allocated
Valid(r, c) == r \in allocd /\ c \in 0..m

\* what a read of d[r][c] can yield
ValsAt(r, c) == IF <<r, c>> \in written THEN {d[r][c]} ELSE GarbageInts

\* what a read of b[r][c] can yield
TagsAt(r, c) == IF <<r, c>> \in written THEN {b[r][c]} ELSE GarbageTags

Put(mat, r, c, v) == [mat EXCEPT ![r][c] = v]

\* line 213: for (int i; i < n+2; i++)
AllocBound == n + 2

\* lines 213-217, an iteration whose row pointer lies inside the arrays
AllocStep ==
    /\ pc = "alloc" /\ i < AllocBound /\ i \in 0..n
    /\ allocd' = allocd \cup {i}
    /\ i' = i + 1
    /\ UNCHANGED <<pc, string1, string2, penaltyMap, n, m, written, d, b, j,
                   best_score, best_i, best_j, matchString1, matchString2,
                   prev, proteins, best_protein, arg, ret, ops, strays>>

\* lines 213-217, d[i] and b[i] written outside the n+1 pointers
AllocStray ==
    /\ pc = "alloc" /\ i < AllocBound /\ i \notin 0..n
    /\ i' = i + 1
    /\ UNCHANGED <<pc, string1, string2, penaltyMap, n, m, allocd, written,
                   d, b, j, best_score, best_i, best_j, matchString1,
                   matchString2, prev, proteins, best_protein, arg, ret, ops,
                   strays>>

AllocExit ==
    /\ pc = "alloc" /\ ~(i < AllocBound)
    /\ pc' = "init_outer" /\ i' = 0
    /\ UNCHANGED <<string1, string2, penaltyMap, n, m, allocd, written, d, b,
                   j, best_score, best_i, best_j, matchString1, matchString2,
                   prev, proteins, best_protein, arg, ret, ops, strays>>

\* line 218: for (int i = 0; i < n+1; i++)
InitOuterEnter ==
    /\ pc = "init_outer" /\ i < n + 1
    /\ pc' = "init_inner" /\ j' = 0
    /\ UNCHANGED <<string1, string2, penaltyMap, n, m, allocd, written, d, b,
                   i, best_score, best_i, best_j, matchString1, matchString2,
                   prev, proteins, best_protein, arg, ret, ops, strays>>

InitOuterExit ==
    /\ pc = "init_outer" /\ ~(i < n + 1)
    /\ pc' = "fill_outer" /\ i' = 1
    /\ UNCHANGED <<string1, string2, penaltyMap, n, m, allocd, written, d, b,
                   j, best_score, best_i, best_j, matchString1, matchString2,
                   prev, proteins, best_protein, arg, ret, ops, strays>>

\* line 220: for (int j = 0; j < m+1; i++): the increment of the inner loop
InitInnerAdvance(ii, jj) == <<ii + 1, jj>>

\* lines 220-224: one pass of the inner loop; its exit (the ELSE branch) needs
\* j >= m+1, and j is 0 throughout
InitInner ==
    /\ pc = "init_inner"
    /\ IF j < m + 1
       THEN /\ Valid(i, j)
            /\ d' = Put(d, i, j, 0)
            /\ b' = Put(b, i, j, "?")
            /\ written' = written \cup {<<i, j>>}
            /\ i' = InitInnerAdvance(i, j)[1]
            /\ j' = InitInnerAdvance(i, j)[2]
            /\ pc' = pc
       ELSE /\ i' = i + 1
            /\ pc' = "init_outer"
            /\ UNCHANGED <<d, b, written, j>>
    /\ UNCHANGED <<string1, string2, penaltyMap, n, m, allocd,
                   best_score, best_i, best_j, matchString1, matchString2,
                   prev, proteins, best_protein, arg, ret, ops, strays>>

\* lines 222-223 through a row index past n or a row pointer never assigned:
\* the store falls outside the matrices
InitStray ==
    /\ pc = "init_inner" /\ j < m + 1 /\ ~Valid(i, j)
    /\ i <= n + MaxStray
    /\ i' = InitInnerAdvance(i, j)[1]
    /\ j' = InitInnerAdvance(i, j)[2]
    /\ UNCHANGED <<pc, string1, string2, penaltyMap, n, m, allocd, written,
                   d, b, best_score, best_i, best_j, matchString1,
                   matchString2, prev, proteins, best_protein, arg, ret, ops,
                   strays>>

\* the same access, the rest of the inner loop not executed
InitLeave ==
    /\ pc = "init_inner" /\ j < m + 1 /\ ~Valid(i, j)
    /\ i' = i + 1
    /\ pc' = "init_outer"
    /\ UNCHANGED <<string1, string2, penaltyMap, n, m, allocd, written, d, b,
                   j, best_score, best_i, best_j, matchString1, matchString2,
                   prev, proteins, best_protein, arg, ret, ops, strays>>


\* line 226: for (int i = 1; i < n+1; i++)
FillOuterEnter ==
    /\ pc = "fill_outer" /\ i < n + 1
    /\ pc' = "fill_inner" /\ j' = 1
    /\ UNCHANGED <<string1, string2, penaltyMap, n, m, allocd, written, d, b,
                   i, best_score, best_i, best_j, matchString1, matchString2,
                   prev, proteins, best_protein, arg, ret, ops, strays>>

\* lines 267-269: the search starts in the last row
StartRow == n

FillOuterExit ==
    /\ pc = "fill_outer" /\ ~(i < n + 1)
    /\ best_i' = StartRow /\ best_j' = 0
    /\ j' = 1
    /\ pc' = "scan"
    /\ UNCHANGED <<string1, string2, penaltyMap, n, m, allocd, written, d, b,
                   i, best_score, matchString1, matchString2,
                   prev, proteins, best_protein, arg, ret, ops, strays>>

\* string1[k] of the code (k counted from 0); a const std::string yields the
\* terminating '\0' at k = size()
Char1(k) == IF k < n THEN string1[k + 1] ELSE NUL
Char2(k) == IF k < m THEN string2[k + 1] ELSE NUL

\* lines 233-258: the tag and the score the nested comparisons choose
Choose(up, left, diag) ==
    IF left > up
    THEN IF left > diag THEN <<"l", left>> ELSE <<"d", diag>>
    ELSE IF up > diag THEN <<"u", up>> ELSE <<"d", diag>>

\* lines 259-262
Clamp(v) == IF v < 0 THEN 0 ELSE v

\* the table after the three lookups of lines 230-232
MapAfterCell(map, c1, c2) ==
    MapAfterGet(MapAfterGet(MapAfterGet(map, c1, GAP), GAP, c2), c1, c2)

\* every access of lines 230-262 is inside the matrices
FillValid == (i - 1) \in allocd /\ i \in allocd /\ j \in 1..m

\* line 228: for (int j = 1; j < m+1; i++): the increment of the inner loop
FillInnerAdvance(ii, jj) == <<ii + 1, jj>>

\* lines 228-265, one pass of the inner loop
FillInner ==
    /\ pc = "fill_inner" /\ j < m + 1 /\ FillValid
    /\ \E vu \in ValsAt(i - 1, j), vl \in ValsAt(i, j - 1),
          vd \in ValsAt(i - 1, j - 1) :
         LET c1 == Char1(i - 1)
             c2 == Char2(j - 1)
             up == vu + get_penalty(penaltyMap, c1, GAP)
             left == vl + get_penalty(penaltyMap, GAP, c2)
             diag == vd + get_penalty(penaltyMap, c1, c2)
             ch == Choose(up, left, diag)
         IN /\ b' = Put(b, i, j, ch[1])
            /\ d' = Put(d, i, j, Clamp(ch[2]))
            /\ penaltyMap' = MapAfterCell(penaltyMap, c1, c2)
    /\ written' = written \cup {<<i, j>>}
    /\ i' = FillInnerAdvance(i, j)[1]
    /\ j' = FillInnerAdvance(i, j)[2]
    /\ UNCHANGED <<pc, string1, string2, n, m, allocd,
                   best_score, best_i, best_j, matchString1, matchString2,
                   prev, proteins, best_protein, arg, ret, ops, strays>>

FillInnerExit ==
    /\ pc = "fill_inner" /\ ~(j < m + 1)
    /\ i' = i + 1
    /\ pc' = "fill_outer"
    /\ UNCHANGED <<string1, string2, penaltyMap, n, m, allocd, written, d, b,
                   j, best_score, best_i, best_j, matchString1, matchString2,
                   prev, proteins, best_protein, arg, ret, ops, strays>>

\* line 230 is complete before the first bad access of line 231 when row i-1
\* is a row of the matrix: its lookup of (string1[i-1], '*') has happened
MapBeforeBadAccess(map) ==
    IF (i - 1) \in allocd /\ j \in 0..m
    THEN MapAfterGet(map, Char1(i - 1), GAP)
    ELSE map

\* lines 230-262 with a row index past n or a row pointer never assigned,
\* the accesses falling outside the matrices
FillStray ==
    /\ pc = "fill_inner" /\ j < m + 1 /\ ~FillValid
    /\ i <= n + MaxStray
    /\ penaltyMap' = MapBeforeBadAccess(penaltyMap)
    /\ i' = FillInnerAdvance(i, j)[1]
    /\ j' = FillInnerAdvance(i, j)[2]
    /\ UNCHANGED <<pc, string1, string2, n, m, allocd, written, d, b,
                   best_score, best_i, best_j, matchString1, matchString2,
                   prev, proteins, best_protein, arg, ret, ops, strays>>

\* the same access, the rest of the inner loop not executed
FillLeave ==
    /\ pc = "fill_inner" /\ j < m + 1 /\ ~FillValid
    /\ penaltyMap' = MapBeforeBadAccess(penaltyMap)
    /\ i' = i + 1
    /\ pc' = "fill_outer"
    /\ UNCHANGED <<string1, string2, n, m, allocd, written, d, b,
                   j, best_score, best_i, best_j, matchString1, matchString2,
                   prev, proteins, best_protein, arg, ret, ops, strays>>

\* the comparison of line 271 taking any different value
BetterAny(v, best) == v # best

\* line 271: if (d[best_i][j] > best_score)
Better(v, best) == v > best

\* lines 271-275 with v the value read from d[best_i][j]
ScanEffect(v) ==
    /\ IF Better(v, best_score)
       THEN best_score' = v /\ best_j' = j
       ELSE UNCHANGED <<best_score, best_j>>
    /\ j' = j + 1
    /\ UNCHANGED <<pc, string1, string2, penaltyMap, n, m, allocd, written,
                   d, b, i, best_i, matchString1, matchString2,
                   prev, proteins, best_protein, arg, ret, ops, strays>>

\* lines 269-276, one pass
ScanStep ==
    /\ pc = "scan" /\ j < m + 1 /\ Valid(best_i, j)
    /\ \E v \in ValsAt(best_i, j) : ScanEffect(v)

\* line 271 through a row pointer never assigned
ScanStray ==
    /\ pc = "scan" /\ j < m + 1 /\ ~Valid(best_i, j)
    /\ \E v \in GarbageInts : ScanEffect(v)

\* lines 277-279
ToTrace ==
    /\ i' = best_i /\ j' = best_j
    /\ pc' = "trace"
    /\ UNCHANGED <<string1, string2, penaltyMap, n, m, allocd, written, d, b,
                   best_score, best_i, best_j, matchString1, matchString2,
                   prev, proteins, best_protein, arg, ret, ops, strays>>

ScanExit == pc = "scan" /\ ~(j < m + 1) /\ ToTrace

ScanLeave == pc = "scan" /\ j < m + 1 /\ ~Valid(best_i, j) /\ ToTrace


\* the pass for tag 'u' leaving matchString2 as it is
TraceBranchNoGap(t, c1, c2, s1, s2, ii, jj) ==
    IF t = "u" THEN <<Append(s1, c1), s2, ii - 1, jj, FALSE>>
    ELSE IF t = "l" THEN <<Append(s1, GAP), Append(s2, c2), ii, jj - 1, FALSE>>
    ELSE IF t = "d" THEN <<Append(s1, c1), Append(s2, c2), ii - 1, jj - 1, FALSE>>
    ELSE IF t = "?" THEN <<s1, s2, ii, jj, TRUE>>
    ELSE <<s1, s2, ii, jj, FALSE>>

\* lines 282-304: what one pass of the traceback loop does for tag t, c1 and
\* c2 being string1[i-1] and string2[j-1]:
\* <<matchString1, matchString2, i, j, done>>
TraceBranch(t, c1, c2, s1, s2, ii, jj) ==
    IF t = "u" THEN <<Append(s1, c1), Append(s2, GAP), ii - 1, jj, FALSE>>
    ELSE IF t = "l" THEN <<Append(s1, GAP), Append(s2, c2), ii, jj - 1, FALSE>>
    ELSE IF t = "d" THEN <<Append(s1, c1), Append(s2, c2), ii - 1, jj - 1, FALSE>>
    ELSE IF t = "?" THEN <<s1, s2, ii, jj, TRUE>>
    ELSE <<s1, s2, ii, jj, FALSE>>

\* tag t makes the pass read string1[-1] or string2[-1]
BadIndex(t) == (t \in {"u", "d"} /\ i < 1) \/ (t \in {"l", "d"} /\ j < 1)

\* the character a read of string1[i-1] (string2[j-1]) yields
TraceChar1 == IF i >= 1 THEN Char1(i - 1) ELSE STRAYCHAR
TraceChar2 == IF j >= 1 THEN Char2(j - 1) ELSE STRAYCHAR

TraceEffect(t, stray) ==
    LET r == TraceBranch(t, TraceChar1, TraceChar2,
                         matchString1, matchString2, i, j)
    IN /\ matchString1' = r[1] /\ matchString2' = r[2]
       /\ i' = r[3] /\ j' = r[4]
       /\ pc' = IF r[5] THEN "reverse" ELSE "trace"
       /\ strays' = strays + stray
       /\ UNCHANGED <<string1, string2, penaltyMap, n, m, allocd, written,
                      d, b, best_score, best_i, best_j,
                      prev, proteins, best_protein, arg, ret, ops>>

\* lines 280-305, one pass with every access in range
TraceStep ==
    /\ pc = "trace" /\ Valid(i, j)
    /\ \E t \in TagsAt(i, j) : ~BadIndex(t) /\ TraceEffect(t, 0)

\* the tags a pass can read when some access of it is out of range
BadTags ==
    IF Valid(i, j) THEN {t \in TagsAt(i, j) : BadIndex(t)} ELSE GarbageTags

\* lines 280-305, one pass reading b or a string outside its storage
TraceStray ==
    /\ pc = "trace"
    /\ strays < MaxStray
    /\ \E t \in BadTags : TraceEffect(t, 1)

\* the same access, the rest of the loop not executed
TraceLeave ==
    /\ pc = "trace" /\ BadTags # {}
    /\ pc' = "reverse"
    /\ UNCHANGED <<string1, string2, penaltyMap, n, m, allocd, written, d, b,
                   i, j, best_score, best_i, best_j, matchString1,
                   matchString2, prev, proteins, best_protein, arg, ret, ops,
                   strays>>

\* lines 306-315: the characters of s from the last to the first
Reverse(s) == [k \in 1..Len(s) |-> s[Len(s) + 1 - k]]

\* lines 306-318
ReverseAndReturn ==
    /\ pc = "reverse"
    /\ matchString1' = Reverse(matchString1)
    /\ matchString2' = Reverse(matchString2)
    /\ ret' = <<best_score>>
    /\ pc' = "done"
    /\ UNCHANGED <<string1, string2, penaltyMap, n, m, allocd, written, d, b,
                   i, j, best_score, best_i, best_j,
                   prev, proteins, best_protein, arg, ops, strays>>

\* the statement about to run makes an access outside the storage it indexes
BadAccess ==
    \/ pc = "alloc" /\ i < AllocBound /\ i \notin 0..n
    \/ pc = "init_inner" /\ j < m + 1 /\ ~Valid(i, j)
    \/ pc = "fill_inner" /\ j < m + 1 /\ ~FillValid
    \/ pc = "scan" /\ j < m + 1 /\ ~Valid(best_i, j)
    \/ pc = "trace" /\ BadTags # {}

\* the process is killed at the bad access
Crash ==
    /\ BadAccess
    /\ pc' = "crashed"
    /\ UNCHANGED <<string1, string2, penaltyMap, n, m, allocd, written, d, b,
                   i, j, best_score, best_i, best_j, matchString1,
                   matchString2, prev, proteins, best_protein, arg, ret, ops,
                   strays>>

\* ---------------------------------------------- local_alignment_best_match
nullptr == 0

Candidates == UNION {[1..k -> Strings] : k \in 0..MaxCands}

\* lines 328-332: the candidate returned, as its position in proteins
BestMatchResult(ps, q, map) == nullptr

local_alignment_best_match ==
    /\ pc = "idle"
    /\ \E ps \in Candidates, q \in Strings :
         /\ proteins' = ps
         /\ string1' = q
         /\ best_protein' = BestMatchResult(ps, q, penaltyMap)
    /\ matchString1' = <<>> /\ matchString2' = <<>>
    /\ pc' = "bm_done"
    /\ UNCHANGED <<string2, penaltyMap, n, m, allocd, written, d, b, i, j,
                   best_score, best_i, best_j, prev, arg, ret, ops, strays>>

\* -------------------------------------------------------------- behaviours
Next ==
    \/ Call
    \/ AllocStep \/ AllocStray \/ AllocExit
    \/ InitOuterEnter \/ InitOuterExit \/ InitInner \/ InitStray \/ InitLeave
    \/ FillOuterEnter \/ FillOuterExit \/ FillInner \/ FillInnerExit
    \/ FillStray \/ FillLeave
    \/ ScanStep \/ ScanStray \/ ScanExit \/ ScanLeave
    \/ TraceStep \/ TraceStray \/ TraceLeave
    \/ ReverseAndReturn
    \/ Crash
    \/ local_alignment_best_match

Spec == Init /\ [][Next]_vars

\* the calls of the table alone
PenaltyVals == {0 - 1, 1}

SetPenalty ==
    /\ pc = "idle" /\ ops < MaxOps
    /\ \E c1 \in Symbols, c2 \in Symbols, p \in PenaltyVals :
         /\ penaltyMap' = set_penalty(penaltyMap, c1, c2, p)
         /\ arg' = <<"set", c1, c2>>
    /\ ret' = <<>>
    /\ ops' = ops + 1
    /\ UNCHANGED <<pc, string1, string2, n, m, allocd, written, d, b, i, j,
                   best_score, best_i, best_j, matchString1, matchString2,
                   prev, proteins, best_protein, strays>>

GetPenalty ==
    /\ pc = "idle" /\ ops < MaxOps
    /\ \E c1 \in Symbols, c2 \in Symbols :
         /\ ret' = <<get_penalty(penaltyMap, c1, c2)>>
         /\ penaltyMap' = MapAfterGet(penaltyMap, c1, c2)
         /\ arg' = <<"get", c1, c2>>
    /\ ops' = ops + 1
    /\ UNCHANGED <<pc, string1, string2, n, m, allocd, written, d, b, i, j,
                   best_score, best_i, best_j, matchString1, matchString2,
                   prev, proteins, best_protein, strays>>

NextTable == SetPenalty \/ GetPenalty

SpecTable == InitTable /\ [][NextTable]_vars


\* a caller that aligns two sequences and then the same two exchanged
NextSwap == Next \/ CallSwapped

SpecSwap == Init /\ [][NextSwap]_vars

\* a sequential program always takes its next step
FairSpec == Spec /\ WF_vars(Next)

\* ------------------------------------------------------------------ claims
SetMax(S) == CHOOSE x \in S : \A y \in S : y <= x

\* the largest score the fill has stored, 0 for a matrix without any
MatrixMax == SetMax({0} \cup {d[c[1]][c[2]] : c \in written})

\* the cells the search of lines 269-276 reads hold stored scores
ScannedRowStored == \A c \in 1..m : <<n, c>> \in written

\* C1: when local_alignment returns, the score is the maximum over all the
\* cells of the score matrix, whatever their row (stated for the runs whose
\* search read stored scores only)
C1_ScoreIsMatrixMax ==
    (pc = "done" /\ ScannedRowStored) => best_score = MatrixMax

\* C2: after the fill, every stored cell of score 0 carries the tag '?'
\* (NONE), so that the traceback stops there
C2_ZeroCellsTaggedNone ==
    pc \in {"scan", "trace", "reverse", "done"} =>
        \A c \in written : d[c[1]][c[2]] = 0 => b[c[1]][c[2]] = "?"

\* C3: a get of a pair that was never set returns no value (it fails) and
\* leaves the table as it was
C3_MissFailsTableIntact ==
    [][(ops' = ops + 1 /\ arg'[1] = "get"
          /\ ~Has(penaltyMap, arg'[2], arg'[3]))
       => (ret' = <<>> /\ penaltyMap' = penaltyMap)]_vars

\* C4: with an empty first or second sequence the call returns score 0 and
\* two empty aligned strings
C4_EmptyInputEmptyResult ==
    (pc = "done" /\ (n = 0 \/ m = 0)) =>
        (best_score = 0 /\ matchString1 = <<>> /\ matchString2 = <<>>)

Symmetric(map) ==
    \A x \in Symbols, y \in Symbols : map[x][y] = map[y][x]

\* C5: under a symmetric table the call with the two sequences exchanged
\* returns the score of the first call
C5_SymmetricScore ==
    (pc = "done" /\ prev # <<>> /\ Symmetric(penaltyMap)) =>
        best_score = prev[3]

Max2(x, y) == IF x >= y THEN x ELSE y

RECURSIVE LocalScoreAt(_, _, _, _, _)
\* the recurrence of the specification's matrix fill
LocalScoreAt(A, B, T, r, c) ==
    IF r = 0 \/ c = 0 THEN 0
    ELSE Max2(Max2(LocalScoreAt(A, B, T, r - 1, c) + T[A[r]][GAP],
                   LocalScoreAt(A, B, T, r, c - 1) + T[GAP][B[c]]),
              Max2(LocalScoreAt(A, B, T, r - 1, c - 1) + T[A[r]][B[c]], 0))

\* the score align is specified to return for A and B
AlignScore(A, B, T) ==
    SetMax({LocalScoreAt(A, B, T, r, c) : r \in 0..Len(A), c \in 0..Len(B)})

\* C6: the batch driver returns the candidate of highest align score against
\* the query, the earliest one on ties
C6_BatchReturnsBest ==
    (pc = "bm_done" /\ proteins # <<>>) =>
        /\ best_protein \in 1..Len(proteins)
        /\ \A k \in 1..Len(proteins) :
             /\ AlignScore(string1, proteins[k], penaltyMap)
                  <= AlignScore(string1, proteins[best_protein], penaltyMap)
             /\ k < best_protein =>
                  AlignScore(string1, proteins[k], penaltyMap)
                    < AlignScore(string1, proteins[best_protein], penaltyMap)

\* C7: the two aligned strings have the same length at every pass of the
\* traceback loop and when the call returns
C7_EqualLength == Len(matchString1) = Len(matchString2)

C7_Witness ==
    pc = "done" /\ Len(matchString1) >= 2 /\ Len(matchString2) >= 2
      /\ (\E k \in 1..Len(matchString2) : matchString2[k] = GAP)

\* C8: the score local_alignment returns is never negative
C8_ScoreNonNegative == best_score >= 0 /\ (ret # <<>> => ret[1] >= 0)

C8_Witness == pc = "done" /\ ret = <<best_score>> /\ best_score > 0

\* C9: every call of local_alignment runs to its return
C9_Terminates == (pc = "alloc") ~> (pc = "done")

\* C10: every access to d and b uses a row in 0..n and a column in 0..m, and
\* every access to string1 and string2 in the fill and the traceback an index
\* in 0..n-1 and 0..m-1
C10_AccessesInRange ==
    /\ (pc = "alloc" /\ i < AllocBound) => i \in 0..n
    /\ (pc = "init_inner" /\ j < m + 1) => (i \in 0..n /\ j \in 0..m)
    /\ (pc = "fill_inner" /\ j < m + 1) => (i \in 1..n /\ j \in 1..m)
    /\ (pc = "scan" /\ j < m + 1) => (best_i \in 0..n /\ j \in 0..m)
    /\ pc = "trace" =>
         (i \in 0..n /\ j \in 0..m /\ \A t \in TagsAt(i, j) : ~BadIndex(t))

=============================================================================
